---- MODULE Spec2Model ----
(***************************************************************************)
(* subscription_migrator: the XML -> YAML transformation pipeline.         *)
(*   src/src/migrate.rs  parse_xml_file, From<XmlApplication>,             *)
(*                       unify_applilcations, write_to_file                *)
(*   src/src/main.rs     migrate_single, migrate_bulk                      *)
(***************************************************************************)
EXTENDS Integers, Sequences, FiniteSets, TLC

VARIABLES
    pc,                 \* position of the run
    applications,       \* Vec<XmlApplication>: parse_xml_file's result, unify's argument
    yaml_applications,  \* Vec<YamlApiSubscription>: the projected documents
    yaml_again,         \* the documents of a second projection of the same input
    \* parse_xml_file
    open,               \* EventReader: the elements opened and not yet closed
    root_closed,        \* EventReader: the document's root element has ended
    nread,              \* EventReader: number of events delivered
    app,                \* parse_xml_file's local `app`
    subscriptions,      \* parse_xml_file's local `subscriptions`
    started,            \* history: name of the k-th application start tag
    owner,              \* history: for the k-th subscription tag, the application
                        \* most recently opened and not yet closed (0: none)
    ended,              \* history: the applications whose end tag was read, in order
    bad_token,          \* history: a non-integer tokenValidity was read
    \* write_to_file
    fs,                 \* the directories under base_path
    force,              \* write_to_file's `force`
    files_written,      \* write_to_file's local `files_written`
    \* migrate_bulk
    matching_paths,     \* what each matching directory holds as subscribe.xml
    staged              \* number of directories opened and parsed so far

projVars == <<yaml_again>>
parseVars == <<open, root_closed, nread, app, subscriptions, started, owner, ended, bad_token>>
writeVars == <<fs, force, files_written>>
bulkVars == <<matching_paths, staged>>

vars == <<pc, applications, yaml_applications, projVars, parseVars, writeVars, bulkVars>>

-----------------------------------------------------------------------------
(* Bounds and alphabets *)

\* total number of applications, subscriptions and environment entries of an input
MaxSize == 6

AppNames == {"A", "B"}
\* (apiName, apiVersion): one name with two versions, two names with one version
ApiRefs == {<<"a", "v1">>, <<"a", "v2">>, <<"b", "v1">>}
EnvNames == {"prod", "dev", "test"}

PROD_PLANE_URL == "https://prod.control-plane.com"
NON_PROD_PLANE_URL == "https://non-prod.control-plane.com"

-----------------------------------------------------------------------------
(* Helpers *)

Range(s) == {s[i] : i \in 1..Len(s)}

\* every order in which the elements of a HashSet / the entries of a HashMap can be
\* iterated (std's RandomState seeds every instance differently)
RECURSIVE IterOrders(_)
IterOrders(S) ==
    IF S = {} THEN {<<>>}
    ELSE UNION {{<<x>> \o rest : rest \in IterOrders(S \ {x})} : x \in S}

\* format!("{}-subscription", name)
FormatSubscription(name) == <<name, "-subscription">>

-----------------------------------------------------------------------------
(* Inputs: every Vec<XmlApplication> up to MaxSize, built entry by entry *)

RECURSIVE SubsSize(_)
SubsSize(subs) ==
    IF subs = <<>> THEN 0 ELSE 1 + Len(Head(subs).env) + SubsSize(Tail(subs))

RECURSIVE Size(_)
Size(apps) ==
    IF apps = <<>> THEN 0 ELSE 1 + SubsSize(Head(apps).apis) + Size(Tail(apps))

\* XmlApplication { name, apis: Vec::new(), .. }
XmlApplication(name) ==
    [name |-> name, token_type |-> "", token_validity |-> 0, apis |-> <<>>]

\* XmlSubscription { api_name, api_version, env }
XmlSubscription(api) == [api_name |-> api[1], api_version |-> api[2], env |-> <<>>]

WithLast(s, x) == [s EXCEPT ![Len(s)] = x]

-----------------------------------------------------------------------------
(* From<XmlApplication> for YamlApiSubscription (single flow) *)

NonProdEnvsFrom(xml_app) ==
    UNION {Range(xml_app.apis[i].env) :
        i \in {j \in 1..Len(xml_app.apis) : \E e \in Range(xml_app.apis[j].env) : e # "prod"}}

ProdEnvsFrom(xml_app) ==
    UNION {Range(xml_app.apis[i].env) :
        i \in {j \in 1..Len(xml_app.apis) : \E e \in Range(xml_app.apis[j].env) : e = "prod"}}

YamlEnvironment(url, names) ==
    [control_plane_url |-> url, environments |-> names]

\* mutant: both blocks are pushed without the is_empty() tests
EnvironmentsFromUnconditional(non_prod_envs, prod_envs, non_prod_names, prod_names) ==
    <<YamlEnvironment(NON_PROD_PLANE_URL, non_prod_names),
      YamlEnvironment(PROD_PLANE_URL, prod_names)>>

\* yaml_env_non_prod / yaml_env_prod and the two conditional pushes
EnvironmentsFrom(non_prod_envs, prod_envs, non_prod_names, prod_names) ==
    (IF non_prod_envs # {}
        THEN <<YamlEnvironment(NON_PROD_PLANE_URL, non_prod_names)>> ELSE <<>>)
    \o (IF prod_envs # {}
        THEN <<YamlEnvironment(PROD_PLANE_URL, prod_names)>> ELSE <<>>)

ApisFrom(xml_app) ==
    [i \in 1..Len(xml_app.apis) |->
        [name |-> xml_app.apis[i].api_name, version |-> xml_app.apis[i].api_version]]

YamlApiSubscription(name, apis, environments) ==
    [environments |-> environments,
     subscription |-> [application |->
        [name |-> name, description |-> FormatSubscription(name), apis |-> apis]]]

\* every document from() can return for xml_app
FromOutcomes(xml_app) ==
    {YamlApiSubscription(xml_app.name, ApisFrom(xml_app),
        EnvironmentsFrom(NonProdEnvsFrom(xml_app), ProdEnvsFrom(xml_app), np, p)) :
        np \in IterOrders(NonProdEnvsFrom(xml_app)), p \in IterOrders(ProdEnvsFrom(xml_app))}

\* xml_applications.into_iter().map(|xml_app| xml_app.into()).collect()
RECURSIVE SingleOutcomes(_)
SingleOutcomes(apps) ==
    IF apps = <<>> THEN {<<>>}
    ELSE {<<d>> \o rest : d \in FromOutcomes(Head(apps)), rest \in SingleOutcomes(Tail(apps))}

-----------------------------------------------------------------------------
(* unify_applilcations (bulk flow) *)

\* app_map: name -> application holding the concatenated subscription lists
RECURSIVE MergedApis(_, _)
MergedApis(apps, nm) ==
    IF apps = <<>> THEN <<>>
    ELSE (IF Head(apps).name = nm THEN Head(apps).apis ELSE <<>>)
         \o MergedApis(Tail(apps), nm)

AppMap(apps) ==
    [nm \in {apps[i].name : i \in 1..Len(apps)} |->
        LET first == CHOOSE i \in 1..Len(apps) :
                /\ apps[i].name = nm
                /\ \A j \in 1..(i - 1) : apps[j].name # nm IN
        [name |-> nm, token_type |-> apps[first].token_type,
         token_validity |-> apps[first].token_validity, apis |-> MergedApis(apps, nm)]]

EnvSet(xml_app) == UNION {Range(xml_app.apis[i].env) : i \in 1..Len(xml_app.apis)}

NameSet(xml_app) == {xml_app.apis[i].api_name : i \in 1..Len(xml_app.apis)}

VersionMap(xml_app) ==
    [nm \in NameSet(xml_app) |->
        {xml_app.apis[i].api_version : i \in {j \in 1..Len(xml_app.apis) : xml_app.apis[j].api_name = nm}}]

\* for name in name_set { for version in version_map[name] { yaml_apis.push(..) } }
RECURSIVE YamlApisInOrder(_, _)
YamlApisInOrder(xml_app, names) ==
    IF names = <<>> THEN {<<>>}
    ELSE {[i \in 1..Len(vs) |-> [name |-> Head(names), version |-> vs[i]]] \o rest :
            vs \in IterOrders(VersionMap(xml_app)[Head(names)]),
            rest \in YamlApisInOrder(xml_app, Tail(names))}

YamlApisOutcomes(xml_app) ==
    UNION {YamlApisInOrder(xml_app, names) : names \in IterOrders(NameSet(xml_app))}

NonProdEnvsUnify(xml_app) == {e \in EnvSet(xml_app) : e # "prod"}

ProdEnvsUnify(xml_app) == {e \in EnvSet(xml_app) : e = "prod"}

\* yaml_env_non_prod / yaml_env_prod and the two conditional pushes
EnvironmentsUnify(non_prod_envs, prod_envs, non_prod_names, prod_names) ==
    (IF non_prod_envs # {}
        THEN <<YamlEnvironment(NON_PROD_PLANE_URL, non_prod_names)>> ELSE <<>>)
    \o (IF prod_envs # {}
        THEN <<YamlEnvironment(PROD_PLANE_URL, prod_names)>> ELSE <<>>)

\* every document the loop body over app_map.values() can push for xml_app
UnifyDocOutcomes(xml_app) ==
    {YamlApiSubscription(xml_app.name, apis,
        EnvironmentsUnify(NonProdEnvsUnify(xml_app), ProdEnvsUnify(xml_app), np, p)) :
        apis \in YamlApisOutcomes(xml_app),
        np \in IterOrders(NonProdEnvsUnify(xml_app)), p \in IterOrders(ProdEnvsUnify(xml_app))}

RECURSIVE UnifyInOrder(_, _)
UnifyInOrder(map, names) ==
    IF names = <<>> THEN {<<>>}
    ELSE {<<d>> \o rest : d \in UnifyDocOutcomes(map[Head(names)]),
                          rest \in UnifyInOrder(map, Tail(names))}

UnifyOutcomes(apps) ==
    UNION {UnifyInOrder(AppMap(apps), names) : names \in IterOrders(DOMAIN AppMap(apps))}

-----------------------------------------------------------------------------
(* Values of the variables a specification does not use *)

DefaultApplication == [name |-> "", token_type |-> "", token_validity |-> 0, apis |-> <<>>]

ParseIdle ==
    /\ open = <<>> /\ root_closed = FALSE /\ nread = 0
    /\ app = DefaultApplication /\ subscriptions = <<>>
    /\ started = <<>> /\ owner = <<>> /\ ended = <<>> /\ bad_token = FALSE

WriteIdle == fs = <<>> /\ force = FALSE /\ files_written = <<>>

BulkIdle == matching_paths = <<>> /\ staged = 0

-----------------------------------------------------------------------------
(* The projection run: one input, projected by one flow, then projected again *)

InitProj ==
    /\ applications = <<>>
    /\ pc = "start"
    /\ yaml_applications = <<>>
    /\ yaml_again = <<>>
    /\ ParseIdle /\ WriteIdle /\ BulkIdle

\* the input grows by one application
PushApplication ==
    /\ pc = "start"
    /\ Size(applications) < MaxSize
    /\ \E nm \in AppNames : applications' = Append(applications, XmlApplication(nm))
    /\ UNCHANGED <<pc, yaml_applications, yaml_again, parseVars, writeVars, bulkVars>>

\* the last application of the input grows by one subscription
PushSubscription ==
    /\ pc = "start"
    /\ Size(applications) < MaxSize
    /\ applications # <<>>
    /\ \E api \in ApiRefs :
        LET xml_app == applications[Len(applications)] IN
        applications' = WithLast(applications,
            [xml_app EXCEPT !.apis = Append(@, XmlSubscription(api))])
    /\ UNCHANGED <<pc, yaml_applications, yaml_again, parseVars, writeVars, bulkVars>>

\* the last subscription of the input grows by one environment entry
PushEnv ==
    /\ pc = "start"
    /\ Size(applications) < MaxSize
    /\ applications # <<>>
    /\ applications[Len(applications)].apis # <<>>
    /\ \E e \in EnvNames :
        LET xml_app == applications[Len(applications)]
            sub == xml_app.apis[Len(xml_app.apis)] IN
        applications' = WithLast(applications,
            [xml_app EXCEPT !.apis = WithLast(@, [sub EXCEPT !.env = Append(@, e)])])
    /\ UNCHANGED <<pc, yaml_applications, yaml_again, parseVars, writeVars, bulkVars>>

ConvertSingle ==
    /\ pc = "start"
    /\ yaml_applications' \in SingleOutcomes(applications)
    /\ pc' = "single"
    /\ UNCHANGED <<applications, yaml_again, parseVars, writeVars, bulkVars>>

Unify ==
    /\ pc = "start"
    /\ yaml_applications' \in UnifyOutcomes(applications)
    /\ pc' = "bulk"
    /\ UNCHANGED <<applications, yaml_again, parseVars, writeVars, bulkVars>>

ConvertSingleAgain ==
    /\ pc = "single"
    /\ yaml_again' \in SingleOutcomes(applications)
    /\ pc' = "single_again"
    /\ UNCHANGED <<applications, yaml_applications, parseVars, writeVars, bulkVars>>

UnifyAgain ==
    /\ pc = "bulk"
    /\ yaml_again' \in UnifyOutcomes(applications)
    /\ pc' = "bulk_again"
    /\ UNCHANGED <<applications, yaml_applications, parseVars, writeVars, bulkVars>>

NextProj == PushApplication \/ PushSubscription \/ PushEnv \/ ConvertSingle \/ Unify

SpecProj == InitProj /\ [][NextProj]_vars

NextTwice == NextProj \/ ConvertSingleAgain \/ UnifyAgain

SpecTwice == InitProj /\ [][NextTwice]_vars

-----------------------------------------------------------------------------
(* parse_xml_file: the event loop over one XML document *)

\* number of events the reader delivers
MaxEvents == 8

\* values of a tokenValidity attribute; str::parse::<i32> accepts the first only
TokenValidityValues == {"3600", "abc"}

ParseI32(value) ==
    IF value = "3600" THEN [ok |-> TRUE, value |-> 3600] ELSE [ok |-> FALSE, value |-> 0]

\* attribute lists of an application tag: name, with or without tokenValidity
ApplicationAttributes ==
    {<<<<"name", nm>>>> : nm \in AppNames}
    \cup {<<<<"name", nm>>, <<"tokenValidity", tv>>>> :
            nm \in AppNames, tv \in TokenValidityValues}

\* attribute list of the k-th subscription tag: its apiName tells the tags apart
SubscriptionAttributes(k) ==
    <<<<"apiName", <<"api", k>>>>, <<"apiVersion", "v1">>, <<"environment", "dev">>>>

\* parse_application: the attribute loop; `panicked` when parse().unwrap() fails
RECURSIVE ParseApplicationFrom(_, _)
ParseApplicationFrom(attributes, acc) ==
    IF attributes = <<>> \/ acc.panicked THEN acc
    ELSE LET attr == Head(attributes)
             next ==
                CASE attr[1] = "name" -> [acc EXCEPT !.name = attr[2]]
                  [] attr[1] = "tokenType" -> [acc EXCEPT !.token_type = attr[2]]
                  [] attr[1] = "tokenValidity" ->
                        IF ParseI32(attr[2]).ok
                        THEN [acc EXCEPT !.token_validity = ParseI32(attr[2]).value]
                        ELSE [acc EXCEPT !.panicked = TRUE]
                  [] OTHER -> acc
         IN ParseApplicationFrom(Tail(attributes), next)

ParseApplication(attributes) ==
    ParseApplicationFrom(attributes,
        [name |-> "", token_type |-> "", token_validity |-> 0, apis |-> <<>>,
         panicked |-> FALSE])

\* parse_subscription: the attribute loop
RECURSIVE ParseSubscriptionFrom(_, _)
ParseSubscriptionFrom(attributes, acc) ==
    IF attributes = <<>> THEN acc
    ELSE LET attr == Head(attributes)
             next ==
                CASE attr[1] = "apiName" -> [acc EXCEPT !.api_name = attr[2]]
                  [] attr[1] = "apiVersion" -> [acc EXCEPT !.api_version = attr[2]]
                  [] attr[1] = "environment" -> [acc EXCEPT !.env = Append(@, attr[2])]
                  [] OTHER -> acc
         IN ParseSubscriptionFrom(Tail(attributes), next)

ParseSubscription(attributes) ==
    ParseSubscriptionFrom(attributes, [api_name |-> "", api_version |-> "", env |-> <<>>])

\* the application most recently opened and not yet closed (0: none)
RECURSIVE InnermostApplication(_)
InnermostApplication(stack) ==
    IF stack = <<>> THEN 0
    ELSE IF stack[Len(stack)].kind = "application" THEN stack[Len(stack)].id
    ELSE InnermostApplication(SubSeq(stack, 1, Len(stack) - 1))

InitParse ==
    /\ pc = "parsing"
    /\ applications = <<>>
    /\ yaml_applications = <<>> /\ yaml_again = <<>>
    /\ ParseIdle /\ WriteIdle /\ BulkIdle

\* the reader can deliver a start tag: the document has events left and, once its
\* root element has ended, no further element
CanStart == pc = "parsing" /\ nread < MaxEvents /\ ~root_closed

\* the fields of the record pushed at an application end tag
WithoutPanicked(parsed) ==
    [name |-> parsed.name, token_type |-> parsed.token_type,
     token_validity |-> parsed.token_validity, apis |-> parsed.apis]

\* Ok(StartElement) with local name "application" and integer or no tokenValidity
StartApplication ==
    /\ CanStart
    /\ \E attributes \in ApplicationAttributes :
        /\ ~ParseApplication(attributes).panicked
        /\ app' = WithoutPanicked(ParseApplication(attributes))
        /\ started' = Append(started, ParseApplication(attributes).name)
    /\ open' = Append(open, [kind |-> "application", id |-> Len(started) + 1])
    /\ nread' = nread + 1
    /\ UNCHANGED <<pc, applications, yaml_applications, projVars, root_closed,
                   subscriptions, owner, ended, bad_token, writeVars, bulkVars>>

\* Ok(StartElement) with local name "application" whose tokenValidity is no integer:
\* unwrap() panics inside parse_application
StartApplicationPanics ==
    /\ CanStart
    /\ \E attributes \in ApplicationAttributes : ParseApplication(attributes).panicked
    /\ pc' = "panicked"
    /\ bad_token' = TRUE
    /\ nread' = nread + 1
    /\ UNCHANGED <<applications, yaml_applications, projVars, open, root_closed, app,
                   subscriptions, started, owner, ended, writeVars, bulkVars>>

\* Ok(StartElement) with local name "subscription"
StartSubscription ==
    /\ CanStart
    /\ subscriptions' =
            Append(subscriptions, ParseSubscription(SubscriptionAttributes(Len(owner) + 1)))
    /\ owner' = Append(owner, InnermostApplication(open))
    /\ open' = Append(open, [kind |-> "subscription", id |-> Len(owner) + 1])
    /\ nread' = nread + 1
    /\ UNCHANGED <<pc, applications, yaml_applications, projVars, root_closed, app,
                   started, ended, bad_token, writeVars, bulkVars>>

\* Ok(StartElement) with any other local name
StartOther ==
    /\ CanStart
    /\ open' = Append(open, [kind |-> "other", id |-> 0])
    /\ nread' = nread + 1
    /\ UNCHANGED <<pc, applications, yaml_applications, projVars, root_closed, app,
                   subscriptions, started, owner, ended, bad_token, writeVars, bulkVars>>

Pop(stack) == SubSeq(stack, 1, Len(stack) - 1)

\* Ok(EndElement) with local name "application"
EndApplication ==
    /\ pc = "parsing" /\ nread < MaxEvents
    /\ open # <<>> /\ open[Len(open)].kind = "application"
    /\ app' = [app EXCEPT !.apis = subscriptions]
    /\ applications' = Append(applications, app')
    /\ subscriptions' = <<>>
    /\ ended' = Append(ended, open[Len(open)].id)
    /\ open' = Pop(open)
    /\ root_closed' = (Len(open) = 1)
    /\ nread' = nread + 1
    /\ UNCHANGED <<pc, yaml_applications, projVars, started, owner, bad_token,
                   writeVars, bulkVars>>

\* Ok(EndElement) with any other local name
EndOther ==
    /\ pc = "parsing" /\ nread < MaxEvents
    /\ open # <<>> /\ open[Len(open)].kind # "application"
    /\ open' = Pop(open)
    /\ root_closed' = (Len(open) = 1)
    /\ nread' = nread + 1
    /\ UNCHANGED <<pc, applications, yaml_applications, projVars, app, subscriptions,
                   started, owner, ended, bad_token, writeVars, bulkVars>>

\* Err(e): the document is not well formed at this point (or ends too early)
XmlError ==
    /\ pc = "parsing" /\ nread < MaxEvents
    /\ pc' = "parse_error"
    /\ nread' = nread + 1
    /\ UNCHANGED <<applications, yaml_applications, projVars, open, root_closed, app,
                   subscriptions, started, owner, ended, bad_token, writeVars, bulkVars>>

\* the reader is exhausted after the root element: Ok(applications)
EndDocument ==
    /\ pc = "parsing"
    /\ root_closed
    /\ pc' = "parsed"
    /\ UNCHANGED <<applications, yaml_applications, projVars, parseVars, writeVars, bulkVars>>

NextParse ==
    \/ StartApplication \/ StartApplicationPanics \/ StartSubscription \/ StartOther
    \/ EndApplication \/ EndOther \/ XmlError \/ EndDocument

SpecParse == InitParse /\ [][NextParse]_vars

-----------------------------------------------------------------------------
(* write_to_file: the loop over the documents *)

\* number of documents handed to write_to_file
MaxDocs == 3

\* format!("{}-{}", name, "subscription")
DirName(name) == <<name, "-", "subscription">>

DirNames == {DirName(nm) : nm \in AppNames}

NoFile == <<"none">>
OldYaml == <<"old">>

\* a directory before the call: absent, present without subscription.yaml, or
\* present with an earlier subscription.yaml
InitialDirs ==
    {[exists |-> FALSE, yaml |-> NoFile],
     [exists |-> TRUE, yaml |-> NoFile],
     [exists |-> TRUE, yaml |-> OldYaml]}

\* serde_yaml::to_string(&app): the text of one document
SerdeYaml(doc) == <<"yaml", doc>>

DirNameOf(doc) == DirName(doc.subscription.application.name)

\* project_path.join("subscription.yaml")
FilePath(doc) == <<DirNameOf(doc), "subscription.yaml">>

\* mutant: the existence test forgets `force`
ConflictIgnoresForce(fsys, doc, f) == fsys[DirNameOf(doc)].exists

\* project_path.exists() && !force
Conflict(fsys, doc, f) == fsys[DirNameOf(doc)].exists /\ ~f

\* mutant: an existing subscription.yaml is kept instead of being replaced
CreateAndWriteKeepsExisting(fsys, doc) ==
    [fsys EXCEPT ![DirNameOf(doc)] =
        [exists |-> TRUE,
         yaml |-> IF fsys[DirNameOf(doc)].yaml = NoFile
                  THEN SerdeYaml(doc) ELSE fsys[DirNameOf(doc)].yaml]]

\* create_dir_all(&project_path) and fs::write(project_path, yaml)
CreateAndWrite(fsys, doc) ==
    [fsys EXCEPT ![DirNameOf(doc)] = [exists |-> TRUE, yaml |-> SerdeYaml(doc)]]

\* the applications whose documents are handed over
SampleApplications ==
    {XmlApplication(nm) : nm \in AppNames}
    \cup {[XmlApplication(nm) EXCEPT
            !.apis = <<[api_name |-> "a", api_version |-> "v1", env |-> <<"prod">>]>>] :
            nm \in AppNames}

DocPool == UNION {FromOutcomes(xml_app) : xml_app \in SampleApplications}

\* index of the document the loop is at
Current == Len(files_written) + 1

InitWrite ==
    /\ pc = "writing"
    /\ applications = <<>>
    /\ yaml_applications \in UNION {[1..n -> DocPool] : n \in 0..MaxDocs}
    /\ yaml_again = <<>>
    /\ fs \in [DirNames -> InitialDirs]
    /\ force \in BOOLEAN
    /\ files_written = <<>>
    /\ ParseIdle /\ BulkIdle

\* return Err(anyhow!("Directory already exists"))
WriteConflict ==
    /\ pc = "writing"
    /\ Current <= Len(yaml_applications)
    /\ Conflict(fs, yaml_applications[Current], force)
    /\ pc' = "write_error"
    /\ UNCHANGED <<applications, yaml_applications, projVars, parseVars, writeVars, bulkVars>>

\* one pass of the loop body without conflict
WriteDocument ==
    /\ pc = "writing"
    /\ Current <= Len(yaml_applications)
    /\ ~Conflict(fs, yaml_applications[Current], force)
    /\ fs' = CreateAndWrite(fs, yaml_applications[Current])
    /\ files_written' = Append(files_written, FilePath(yaml_applications[Current]))
    /\ UNCHANGED <<pc, applications, yaml_applications, projVars, parseVars, force, bulkVars>>

\* Ok(files_written)
WriteReturn ==
    /\ pc = "writing"
    /\ Current > Len(yaml_applications)
    /\ pc' = "written"
    /\ UNCHANGED <<applications, yaml_applications, projVars, parseVars, writeVars, bulkVars>>

NextWrite == WriteConflict \/ WriteDocument \/ WriteReturn

SpecWrite == InitWrite /\ [][NextWrite]_vars

-----------------------------------------------------------------------------
(* migrate_bulk: open and parse every matching directory, unify, write *)

\* number of matching directories
MaxDirs == 2

\* what a matching directory holds as subscribe.xml: no file, a file that is not
\* well-formed XML, a file with a non-integer tokenValidity, or a file that parses
\* to one application
SubscribeXmlFiles ==
    {[kind |-> "missing", apps |-> <<>>],
     [kind |-> "malformed", apps |-> <<>>],
     [kind |-> "bad_token", apps |-> <<>>]}
    \cup {[kind |-> "valid", apps |-> <<xml_app>>] : xml_app \in SampleApplications}

InitBulk ==
    /\ pc = "staging"
    /\ applications = <<>>
    /\ yaml_applications = <<>>
    /\ yaml_again = <<>>
    /\ matching_paths \in UNION {[1..n -> SubscribeXmlFiles] : n \in 0..MaxDirs}
    /\ staged = 0
    /\ fs \in [DirNames -> InitialDirs]
    /\ force \in BOOLEAN
    /\ files_written = <<>>
    /\ ParseIdle

NextPath == matching_paths[staged + 1]

\* File::open and parse_xml_file succeed: staged_applications.extend(applications)
StageDirectory ==
    /\ pc = "staging"
    /\ staged < Len(matching_paths)
    /\ NextPath.kind = "valid"
    /\ applications' = applications \o NextPath.apps
    /\ staged' = staged + 1
    /\ UNCHANGED <<pc, yaml_applications, projVars, parseVars, writeVars, matching_paths>>

\* File::open(path)? returns the error
OpenFails ==
    /\ pc = "staging"
    /\ staged < Len(matching_paths)
    /\ NextPath.kind = "missing"
    /\ pc' = "bulk_error"
    /\ UNCHANGED <<applications, yaml_applications, projVars, parseVars, writeVars, bulkVars>>

\* mutant: a file that fails to parse is skipped and the loop goes on
ParseFailsSkips ==
    /\ pc = "staging"
    /\ staged < Len(matching_paths)
    /\ NextPath.kind = "malformed"
    /\ staged' = staged + 1
    /\ UNCHANGED <<pc, applications, yaml_applications, projVars, parseVars, writeVars,
                   matching_paths>>

\* parse_xml_file(&file)? returns the error
ParseFails ==
    /\ pc = "staging"
    /\ staged < Len(matching_paths)
    /\ NextPath.kind = "malformed"
    /\ pc' = "bulk_error"
    /\ UNCHANGED <<applications, yaml_applications, projVars, parseVars, writeVars, bulkVars>>

\* parse_xml_file panics inside parse_application
ParsePanics ==
    /\ pc = "staging"
    /\ staged < Len(matching_paths)
    /\ NextPath.kind = "bad_token"
    /\ pc' = "panicked"
    /\ UNCHANGED <<applications, yaml_applications, projVars, parseVars, writeVars, bulkVars>>

\* unify_applilcations(&staged_applications), then the call of write_to_file
BulkUnify ==
    /\ pc = "staging"
    /\ staged = Len(matching_paths)
    /\ yaml_applications' \in UnifyOutcomes(applications)
    /\ pc' = "writing"
    /\ UNCHANGED <<applications, projVars, parseVars, writeVars, bulkVars>>

NextBulk ==
    \/ StageDirectory \/ OpenFails \/ ParseFails \/ ParsePanics \/ BulkUnify
    \/ WriteConflict \/ WriteDocument \/ WriteReturn

SpecBulk == InitBulk /\ [][NextBulk]_vars

-----------------------------------------------------------------------------
(* Projection: what the documents are compared against *)

Projected == pc \in {"single", "bulk", "single_again", "bulk_again"}

SingleDone == pc \in {"single", "single_again"}

BulkDone == pc \in {"bulk", "bulk_again"}

\* the subscriptions a document stands for: those of its own application in the
\* single flow, those of every application of that name in the bulk flow
SubscriptionsOfDoc(k) ==
    IF SingleDone
    THEN Range(applications[k].apis)
    ELSE UNION {Range(applications[i].apis) :
            i \in {j \in 1..Len(applications) :
                applications[j].name = yaml_applications[k].subscription.application.name}}

ListedEnvs(subs) == UNION {Range(sub.env) : sub \in subs}

ListedApis(subs) == {<<sub.api_name, sub.api_version>> : sub \in subs}

Blocks(doc, url) ==
    {i \in 1..Len(doc.environments) : doc.environments[i].control_plane_url = url}

BlockNames(doc, url) ==
    UNION {Range(doc.environments[i].environments) : i \in Blocks(doc, url)}

DocApis(doc) ==
    LET apis == doc.subscription.application.apis IN
    [i \in 1..Len(apis) |-> <<apis[i].name, apis[i].version>>]

\* C1: in both flows the non-production block lists exactly the environment
\* entries different from "prod" of the application's subscriptions and the
\* production block lists exactly "prod" when some subscription lists it.
C1_EnvironmentSplit ==
    Projected =>
        \A k \in 1..Len(yaml_applications) :
            LET listed == ListedEnvs(SubscriptionsOfDoc(k)) IN
            /\ BlockNames(yaml_applications[k], NON_PROD_PLANE_URL) = listed \ {"prod"}
            /\ BlockNames(yaml_applications[k], PROD_PLANE_URL) = listed \cap {"prod"}

\* C2: in both flows the apis list holds one entry per distinct
\* (apiName, apiVersion) pair of the application's subscriptions, none twice.
C2_ApisDistinctPairs ==
    Projected =>
        \A k \in 1..Len(yaml_applications) :
            LET apis == DocApis(yaml_applications[k]) IN
            /\ Range(apis) = ListedApis(SubscriptionsOfDoc(k))
            /\ \A i, j \in 1..Len(apis) : apis[i] = apis[j] => i = j

\* what C3 compares: name, description, the set of apis, the blocks with their name sets
DocView(doc) ==
    [name |-> doc.subscription.application.name,
     description |-> doc.subscription.application.description,
     apis |-> Range(doc.subscription.application.apis),
     environments |->
        [i \in 1..Len(doc.environments) |->
            [control_plane_url |-> doc.environments[i].control_plane_url,
             names |-> Range(doc.environments[i].environments)]]]

TwoSameNameDisjoint ==
    /\ Len(applications) = 2
    /\ applications[1].name = applications[2].name
    /\ applications[1].apis # <<>>
    /\ applications[2].apis # <<>>
    /\ Range(applications[1].apis) \cap Range(applications[2].apis) = {}

Concatenated ==
    [applications[1] EXCEPT !.apis = applications[1].apis \o applications[2].apis]

\* C3: the bulk flow turns two same-name applications with disjoint subscription
\* lists into one document, the same as the projection (bulk or single flow) of
\* one application holding the concatenation of both lists.
C3_MergeEqualsConcatenation ==
    (BulkDone /\ TwoSameNameDisjoint) =>
        /\ Len(yaml_applications) = 1
        /\ \A ds \in UnifyOutcomes(<<Concatenated>>) :
              Len(ds) = 1 /\ DocView(ds[1]) = DocView(yaml_applications[1])
        /\ \A d \in FromOutcomes(Concatenated) :
              DocView(d) = DocView(yaml_applications[1])

\* the part of C3 about the bulk flow alone
C3_BulkPart ==
    (BulkDone /\ TwoSameNameDisjoint) =>
        /\ Len(yaml_applications) = 1
        /\ \A ds \in UnifyOutcomes(<<Concatenated>>) :
              Len(ds) = 1 /\ DocView(ds[1]) = DocView(yaml_applications[1])

\* C4: in both flows a document has a non-production block iff some subscription
\* lists an environment other than "prod" and a production block iff some
\* subscription lists "prod"; at most two blocks, none with an empty name list,
\* none for an application without subscriptions, non-production first.
C4_BlocksPresence ==
    Projected =>
        \A k \in 1..Len(yaml_applications) :
            LET doc == yaml_applications[k]
                subs == SubscriptionsOfDoc(k)
                nonprod == Blocks(doc, NON_PROD_PLANE_URL)
                prod == Blocks(doc, PROD_PLANE_URL) IN
            /\ Len(doc.environments) <= 2
            /\ nonprod \cup prod = 1..Len(doc.environments)
            /\ Cardinality(nonprod) <= 1 /\ Cardinality(prod) <= 1
            /\ (nonprod # {}) <=> (\E e \in ListedEnvs(subs) : e # "prod")
            /\ (prod # {}) <=> ("prod" \in ListedEnvs(subs))
            /\ \A i \in 1..Len(doc.environments) : doc.environments[i].environments # <<>>
            /\ (subs = {}) => doc.environments = <<>>
            /\ (nonprod # {} /\ prod # {}) => (nonprod = {1} /\ prod = {2})

\* C4 witness: a document with both blocks has been produced by each flow's code
C4_Witness ==
    /\ Projected
    /\ \E k \in 1..Len(yaml_applications) : Len(yaml_applications[k].environments) = 2

\* C9: projecting the same input twice gives identical documents, in the same
\* order, with the same order of environment names and of apis.
C9_Deterministic ==
    (pc \in {"single_again", "bulk_again"}) => yaml_again = yaml_applications

-----------------------------------------------------------------------------
(* parse_xml_file: ownership of subscriptions *)

\* the apiNames of the subscription tags read while application id was the one most
\* recently opened and not yet closed, in document order
RECURSIVE OwnedFrom(_, _)
OwnedFrom(j, id) ==
    IF j > Len(owner) THEN <<>>
    ELSE (IF owner[j] = id THEN <<<<"api", j>>>> ELSE <<>>) \o OwnedFrom(j + 1, id)

RecordApiNames(k) ==
    [i \in 1..Len(applications[k].apis) |-> applications[k].apis[i].api_name]

\* C5: every record appended at an application end tag holds, in document order,
\* exactly the subscriptions read while that application was the one most recently
\* opened and not yet closed, so every subscription is in that record and no other.
C5_SubscriptionOwnership ==
    (pc \in {"parsing", "parsed"}) =>
        /\ Len(applications) = Len(ended)
        /\ \A k \in 1..Len(applications) :
            RecordApiNames(k) = OwnedFrom(1, ended[k])

\* documents in which applications do not nest and every subscription lies in one
FlatDocument ==
    /\ \A j \in 1..Len(owner) : owner[j] # 0
    /\ \A k \in 1..Len(ended) : ended[k] = k
    /\ \A i, j \in 1..Len(open) :
        (open[i].kind = "application" /\ open[j].kind = "application") => i = j

\* C5 restricted to flat documents
C5_FlatCase == FlatDocument => C5_SubscriptionOwnership

\* C6: a non-integer tokenValidity ends parse_xml_file with an error value returned
\* to the caller, not with an abnormal termination, and no record is returned.
C6_BadTokenValidityIsError ==
    bad_token => pc = "parse_error"

-----------------------------------------------------------------------------
(* write_to_file and migrate_bulk: what reaches the disk *)

Writing == pc = "writing" /\ Current <= Len(yaml_applications)

\* C8: at a document whose directory exists, without force, write_to_file returns
\* the error and changes nothing on disk; with force or without the directory it
\* creates the directory and writes the document's subscription.yaml there.
C8_ConflictLeavesDirectory ==
    [][Writing =>
        LET doc == yaml_applications[Current]
            dir == DirNameOf(doc) IN
        IF fs[dir].exists /\ ~force
        THEN pc' = "write_error" /\ fs' = fs
        ELSE /\ pc' = "writing"
             /\ fs'[dir] = [exists |-> TRUE, yaml |-> SerdeYaml(doc)]
             /\ \A other \in DirNames \ {dir} : fs'[other] = fs[other]
             /\ files_written' = Append(files_written, <<dir, "subscription.yaml">>)]_vars

\* C8 witness: the call has returned the error at a directory that held an earlier
\* subscription.yaml, which is still there
C8_Witness ==
    /\ pc = "write_error"
    /\ fs[DirNameOf(yaml_applications[Current])].yaml = OldYaml

SameName(i, j) ==
    yaml_applications[i].subscription.application.name
        = yaml_applications[j].subscription.application.name

\* index of the last document of the call that goes to the directory of document i
LastFor(i) ==
    CHOOSE j \in i..Len(yaml_applications) :
        SameName(i, j) /\ \A k \in (j + 1)..Len(yaml_applications) : ~SameName(i, k)

\* C10: without force two documents of one name are never both written: the loop
\* finds the directory made by the first write and ends in the error at the second,
\* with every earlier document left on disk; with force both are written to one
\* path, the later replaces the earlier, and the returned list holds the path twice.
C10_NotAllOrNothing ==
    (pc \in {"writing", "write_error", "written"}) =>
        /\ ~force =>
            /\ \A i, j \in 1..Len(files_written) :
                    files_written[i] = files_written[j] => i = j
            /\ (Writing /\ \E i \in 1..(Current - 1) : SameName(i, Current))
                    => fs[DirNameOf(yaml_applications[Current])].exists
            /\ pc = "written" =>
                    \A i, j \in 1..Len(yaml_applications) : SameName(i, j) => i = j
            /\ pc = "write_error" =>
                    \A i \in 1..(Current - 1) :
                        fs[DirNameOf(yaml_applications[i])].yaml
                            = SerdeYaml(yaml_applications[i])
        /\ (force /\ pc = "written") =>
            /\ files_written =
                    [i \in 1..Len(yaml_applications) |-> FilePath(yaml_applications[i])]
            /\ \A i \in 1..Len(yaml_applications) :
                    fs[DirNameOf(yaml_applications[i])].yaml
                        = SerdeYaml(yaml_applications[LastFor(i)])

\* C10 witness: without force the call has ended in the error at the second of two
\* different documents of one name, after writing the first
C10_Witness ==
    /\ pc = "write_error"
    /\ Current = 2
    /\ SameName(1, 2)
    /\ yaml_applications[1] # yaml_applications[2]
    /\ fs[DirNameOf(yaml_applications[1])].yaml = SerdeYaml(yaml_applications[1])

SomeDirectoryFails ==
    \E k \in 1..Len(matching_paths) : matching_paths[k].kind # "valid"

\* C7: in the bulk flow nothing is written before every matching directory has
\* been opened and parsed and the merge has run; when a directory fails, whatever
\* its position, the run stops at it without reaching the merge or a write.
C7_NoWriteBeforeAllParsed ==
    /\ [](SomeDirectoryFails =>
            /\ pc \in {"staging", "bulk_error", "panicked"}
            /\ files_written = <<>>
            /\ yaml_applications = <<>>
            /\ \A k \in 1..Len(matching_paths) :
                    matching_paths[k].kind # "valid" => staged < k)
    /\ [][(fs' # fs \/ files_written' # files_written) =>
            /\ pc = "writing"
            /\ staged = Len(matching_paths)
            /\ ~SomeDirectoryFails]_vars

\* C7 witness: the run has ended in an error at the second directory, after the
\* first one was opened and parsed
C7_Witness ==
    /\ pc = "bulk_error"
    /\ staged = 1
    /\ applications # <<>>

====
